---- MODULE Spec2Model ----
(***************************************************************************)
(* A model of the app generator: the registry store, the code block        *)
(* extractor, the artifact materializer of the create flow, the execution  *)
(* dispatcher run_app and the interactive loop of main, for both variants  *)
(* of the program kept in the repository:                                  *)
(*   "v2"  src/app_generator.py                                            *)
(*   "v1"  src/App Generator/app_generator.py                              *)
(*                                                                         *)
(* Texts (markdown, code, tags) are sequences of one-character strings;    *)
(* file names and paths are sequences of name tokens (see PATHS).          *)
(***************************************************************************)
EXTENDS Integers, Sequences, FiniteSets, TLC

(***************************************************************************)
(* TEXT: characters, Python's str methods and the two regular expressions. *)
(***************************************************************************)
NL == "\n"
SP == " "
\* The backtick, written "~": the lexer of TLA+ accepts no backtick in a string.
BT == "~"

\* Python's \s (the whitespace the model's texts use).
IsSpace(c) == c \in {SP, NL}

\* Python's \w: letters, digits and the underscore.
LowerLetters ==
  <<"a","b","c","d","e","f","g","h","i","j","k","l","m","n","o","p","q","r",
    "s","t","u","v","w","x","y","z">>
UpperLetters ==
  <<"A","B","C","D","E","F","G","H","I","J","K","L","M","N","O","P","Q","R",
    "S","T","U","V","W","X","Y","Z">>
Digits == {"0","1","2","3","4","5","6","7","8","9"}

WordChars ==
  {LowerLetters[i] : i \in 1..26} \cup {UpperLetters[i] : i \in 1..26}
    \cup Digits \cup {"_"}

IsWord(c) == c \in WordChars

\* str.lower() on one character.
LowerChar(c) ==
  IF \E i \in 1..26 : UpperLetters[i] = c
  THEN LowerLetters[CHOOSE i \in 1..26 : UpperLetters[i] = c]
  ELSE c

Lower(s) == [i \in 1..Len(s) |-> LowerChar(s[i])]

\* s[i:j] with 1-based inclusive bounds, empty when j < i.
Slice(s, i, j) == IF j < i THEN <<>> ELSE SubSeq(s, i, j)

\* s.startswith(p, i): p occurs in s at position i.
OccursAt(s, p, i) ==
  /\ i >= 1
  /\ i + Len(p) - 1 <= Len(s)
  /\ \A k \in 1..Len(p) : s[i + k - 1] = p[k]

\* "p in s" of Python.
Contains(s, p) == \E i \in 1..(Len(s) + 1) : OccursAt(s, p, i)

\* s.endswith(p)
EndsWith(s, p) == OccursAt(s, p, Len(s) - Len(p) + 1)

AllSpace(s, i, j) == \A k \in i..j : IsSpace(s[k])
AllWord(s, i, j) == \A k \in i..j : IsWord(s[k])

\* str.strip(): leading and trailing whitespace removed.
Strip(s) ==
  LET keep == {i \in 1..Len(s) : ~IsSpace(s[i])}
      Min(S) == CHOOSE m \in S : \A n \in S : m <= n
      Max(S) == CHOOSE m \in S : \A n \in S : m >= n
  IN  IF keep = {} THEN <<>> ELSE SubSeq(s, Min(keep), Max(keep))

Fence == <<BT, BT, BT>>

\* The least position >= from where the closing ~~~ occurs, 0 when there is none:
\* the lazy (.*?) of both patterns, under re.DOTALL, stops at the first one.
FirstFence(t, from) ==
  LET at == {e \in from..(Len(t) - 2) : OccursAt(t, Fence, e)}
  IN  IF at = {} THEN 0 ELSE CHOOSE e \in at : \A f \in at : e <= f

NoMatch == [found |-> FALSE]

\* The length of the longest run of whitespace (of word characters) of t that
\* starts at position from.
SpaceRun(t, from) ==
  LET ks == {k \in 0..(Len(t) - from + 1) : AllSpace(t, from, from + k - 1)}
  IN  CHOOSE k \in ks : \A j \in ks : k >= j

WordRun(t, from) ==
  LET ks == {k \in 0..(Len(t) - from + 1) : AllWord(t, from, from + k - 1)}
  IN  CHOOSE k \in ks : \A j \in ks : k >= j

\* The choices of the backtracking matcher for ~~~\s*(\w+)?\s*\n(.*?)~~~ started
\* at position i: a characters for the first \s*, w for (\w+)? (0: the group is
\* skipped), b for the second \s*, then the newline, then a closing fence.
BlockCandidates(t, i) ==
  IF ~OccursAt(t, Fence, i) THEN {}
  ELSE UNION {UNION {{<<a, w, b>> : b \in {x \in 0..SpaceRun(t, i + 3 + a + w) :
                                             LET p == i + 3 + a + w + x
                                             IN  /\ p <= Len(t)
                                                 /\ t[p] = NL
                                                 /\ FirstFence(t, p + 1) # 0}} :
                      w \in 0..WordRun(t, i + 3 + a)} :
              a \in 0..SpaceRun(t, i + 3)}

\* Greedy quantifiers try the longest first: the match the engine returns is the
\* first success in the order a descending, then w descending, then b descending.
Preferred(c, d) ==
  \/ c[1] > d[1]
  \/ c[1] = d[1] /\ c[2] > d[2]
  \/ c[1] = d[1] /\ c[2] = d[2] /\ c[3] >= d[3]

\* re's match of code_block_pattern of extract_code_blocks at position i.
MatchBlockAt(t, i) ==
  LET cands == BlockCandidates(t, i)
  IN  IF cands = {} THEN NoMatch
      ELSE LET c == CHOOSE x \in cands : \A d \in cands : Preferred(x, d)
               p == i + 3 + c[1] + c[2] + c[3]
               e == FirstFence(t, p + 1)
           IN  [found |-> TRUE,
                lang |-> Slice(t, i + 3 + c[1], i + 2 + c[1] + c[2]),
                code |-> Slice(t, p + 1, e - 1),
                end |-> e + 3]

\* re.findall: leftmost non-overlapping matches, scanning from position i.
RECURSIVE FindAllBlocks(_, _)
FindAllBlocks(t, i) ==
  IF i > Len(t) THEN <<>>
  ELSE LET m == MatchBlockAt(t, i)
       IN  IF m.found
           THEN <<[lang |-> m.lang, code |-> m.code]>> \o FindAllBlocks(t, m.end)
           ELSE FindAllBlocks(t, i + 1)

\* extract_code_blocks: the (lang.strip(), code.strip()) of every match.
extract_code_blocks(markdown_text) ==
  LET matches == FindAllBlocks(markdown_text, 1)
  IN  [k \in 1..Len(matches) |->
         [lang |-> Strip(matches[k].lang), code |-> Strip(matches[k].code)]]

\* The choices of the matcher for ~~~(?:\w+)?\n(.*?)~~~ at position i: w
\* characters for the optional tag, then the newline, then a closing fence.
CodeCandidates(t, i) ==
  IF ~OccursAt(t, Fence, i) THEN {}
  ELSE {w \in 0..Len(t) :
          LET p == i + 3 + w
          IN  /\ p <= Len(t)
              /\ AllWord(t, i + 3, i + 2 + w)
              /\ t[p] = NL
              /\ FirstFence(t, p + 1) # 0}

\* re.search of code_block_pattern of extract_code: the leftmost match.
SearchCode(t) ==
  LET starts == {i \in 1..Len(t) : CodeCandidates(t, i) # {}}
  IN  IF starts = {} THEN NoMatch
      ELSE LET i == CHOOSE s \in starts : \A r \in starts : s <= r
               w == CHOOSE x \in CodeCandidates(t, i) :
                      \A y \in CodeCandidates(t, i) : x >= y
               p == i + 3 + w
           IN  [found |-> TRUE, code |-> Slice(t, p + 1, FirstFence(t, p + 1) - 1)]

\* Python's None where a text is expected: no text is equal to it (a text is a
\* sequence of one-character strings).
None == <<"None">>

extract_code(markdown_text) ==
  LET m == SearchCode(markdown_text)
  IN  IF m.found THEN Strip(m.code) ELSE None

(***************************************************************************)
(* PATHS: a file name or path is a sequence of name tokens: stems ("app",  *)
(* "main"), dot-extensions (".py"), decimal digits and the separator "/".  *)
(* Concatenation, endswith, "in" and replace act on the tokens.            *)
(***************************************************************************)
DotTokens == {".py", ".html", ".cpp", ".txt", ".css", ".js", ".exe"}

\* "." in filename
HasDot(fname) == \E i \in 1..Len(fname) : fname[i] \in DotTokens

\* str(n) for n >= 0: the decimal digits, most significant first.
Digit(d) == CASE d = 0 -> "0" [] d = 1 -> "1" [] d = 2 -> "2" [] d = 3 -> "3"
              [] d = 4 -> "4" [] d = 5 -> "5" [] d = 6 -> "6" [] d = 7 -> "7"
              [] d = 8 -> "8" [] d = 9 -> "9"

RECURSIVE Str(_)
Str(n) == IF n < 10 THEN <<Digit(n)>> ELSE Str(n \div 10) \o <<Digit(n % 10)>>

\* The current working directory of the process; every path the flows build is
\* relative to it.
Cwd == <<"/cwd/">>

\* os.path.abspath of a relative path.
abspath(path) == IF Len(path) > 0 /\ path[1] = "/cwd/" THEN path ELSE Cwd \o path

\* os.path.join(a, b) for a relative b.
join(a, b) == a \o <<"/">> \o b

\* s.replace(tok, ""): every occurrence of the token removed.
RECURSIVE RemoveToken(_, _)
RemoveToken(s, tok) ==
  IF s = <<>> THEN <<>>
  ELSE (IF Head(s) = tok THEN <<>> ELSE <<Head(s)>>) \o RemoveToken(Tail(s), tok)

(***************************************************************************)
(* STATE                                                                   *)
(***************************************************************************)
VARIABLES
  variant,    \* which script is running: "v1" or "v2"
  pc,         \* the prompt main waits at ("menu", "ask_save", ...), "done" at the
              \* end of a pass, "exited", or "crashed": an exception left main
  regFile,    \* apps_registry.json: [kind |-> "absent" | "corrupt" | "list", recs]
  files,      \* the regular files of the file system: absolute path -> content
  dirs,       \* the directories created under the working directory
  loc,        \* the local variables of main that the current pass has set
  out,        \* the events of the last step, in order
  doc,        \* extractor harness: the markdown document handed to the extractors,
              \* [prose, blocks]: a line of prose, then the fenced blocks
  blocksOut,  \* extractor harness: what extract_code_blocks returned
  codeOut,    \* extractor harness: what extract_code returned
  xpc         \* extractor harness: "idle", or which extractors have returned:
              \* "in" (none yet), "blocks", "code", "both"

vars == <<variant, pc, regFile, files, dirs, loc, out, doc, blocksOut, codeOut, xpc>>
mainVars == <<variant, pc, regFile, files, dirs, loc, out>>
harnessVars == <<doc, blocksOut, codeOut, xpc>>

(***************************************************************************)
(* REGISTRY STORE                                                          *)
(***************************************************************************)
\* The most records the model lets a registry hold (creation is disabled beyond).
MaxApps == 2

AbsentFile == [kind |-> "absent", recs |-> <<>>]
CorruptFile == [kind |-> "corrupt", recs |-> <<>>]
ListFile(recs) == [kind |-> "list", recs |-> recs]

\* A loader that answers a file it cannot parse with a placeholder record.
load_apps_registry_placeholder(f) ==
  IF f.kind = "list" THEN f.recs
  ELSE IF f.kind = "absent" THEN <<>>
  ELSE <<[id |-> <<"0">>, name |-> <<"unknown">>, description |-> <<>>,
          language |-> "Auto", path |-> <<"/cwd/">>, features |-> <<>>,
          created_at |-> "t1"]>>

\* load_apps_registry: the parsed list, or [] when the file is absent or json.load
\* raises.  json.load(json.dump(x)) = x for the lists of dicts of strings and lists
\* of strings the program stores, so the file holds the list itself.
load_apps_registry(f) == IF f.kind = "list" THEN f.recs ELSE <<>>

\* save_apps_registry: the whole list rewritten.
save_apps_registry(registry) == ListFile(registry)

\* An entry whose id does not depend on the registry.
app_entry_first_id(v, registry, name, description, language, path, features, now) ==
  [id |-> <<"1">>, name |-> name, description |-> description, language |-> language,
   path |-> <<"/cwd/">> \o path, features |-> features, created_at |-> now]

\* The dict add_app_to_registry builds; v1's has no "features" key.
app_entry(v, registry, name, description, language, path, features, now) ==
  IF v = "v2"
  THEN [id |-> Str(Len(registry) + 1), name |-> name, description |-> description,
        language |-> language, path |-> abspath(path), features |-> features,
        created_at |-> now]
  ELSE [id |-> Str(Len(registry) + 1), name |-> name, description |-> description,
        language |-> language, path |-> abspath(path), created_at |-> now]

\* A store that saves the new entry alone.
add_app_to_registry_alone(v, f, name, description, language, path, features, now) ==
  save_apps_registry(
    <<app_entry(v, load_apps_registry(f), name, description, language, path,
                features, now)>>)

\* add_app_to_registry: load, append the new entry, save.  The new file.
add_app_to_registry(v, f, name, description, language, path, features, now) ==
  LET registry == load_apps_registry(f)
  IN  save_apps_registry(
        Append(registry,
               app_entry(v, registry, name, description, language, path, features, now)))

(***************************************************************************)
(* EXECUTION DISPATCHER: run_app and run_online_cpp_programiz.             *)
(* The environment of one call is a record env:                            *)
(*   readOk     open(file_path, "r") succeeds (the file must also exist)   *)
(*   gpp        shutil.which("g++") finds a compiler                       *)
(*   compileOk  g++ exits 0                                                *)
(*   proc       the launched program: "ok", "nonzero" (exit status),       *)
(*              "nostart" (OSError), "interrupt" (KeyboardInterrupt)       *)
(*   auto       the browser automation: "ok", or the step that raises      *)
(*   win32      sys.platform == "win32"                                    *)
(* What the call does is a sequence of events, in order.                   *)
(***************************************************************************)
LangLower(l) ==
  CASE l = "Python" -> "python" [] l = "HTML" -> "html" [] l = "C++" -> "c++"
    [] l = "Auto" -> "auto" [] OTHER -> l

\* app_entry.get("language", "auto").lower()
EntryLanguage(entry) ==
  IF "language" \in DOMAIN entry THEN LangLower(entry.language) ELSE "auto"

ImportStreamlit ==
  <<"i","m","p","o","r","t",SP,"s","t","r","e","a","m","l","i","t">>

RequirementsWord == <<"r","e","q","u","i","r","e","m","e","n","t","s",":">>

\* re.search(r"#\s*requirements:\s*(.*)", content, re.IGNORECASE) matches and its
\* group holds a name: at the leftmost "#" that whitespace and the word follow, the
\* rest of the first line after the whitespace that follows the word has a
\* character that is no comma and no whitespace.
HasRequirements(content) ==
  LET low == Lower(content)
      n == Len(low)
      wordAfter(i) == {j \in i..n : AllSpace(low, i + 1, j)
                                     /\ OccursAt(low, RequirementsWord, j + 1)}
      starts == {i \in 1..n : low[i] = "#" /\ wordAfter(i) # {}}
  IN  /\ starts # {}
      /\ LET i == CHOOSE x \in starts : \A y \in starts : x <= y
             j == CHOOSE x \in wordAfter(i) : TRUE
             after == j + Len(RequirementsWord) + 1
             text == {g \in after..n : ~IsSpace(low[g])}
         IN  /\ text # {}
             /\ LET g == CHOOSE x \in text : \A y \in text : x <= y
                IN  \E k \in g..n : /\ \A h \in g..k : low[h] # NL
                                    /\ low[k] # "," /\ ~IsSpace(low[k])

\* The branch of the if/elif chain run_app takes (both variants).
RunBranch(entry) ==
  LET language == EntryLanguage(entry)
      file_path == entry.path
  IN  IF language = "python" \/ EndsWith(file_path, <<".py">>) THEN "python"
      ELSE IF language = "html" \/ EndsWith(file_path, <<".html">>) THEN "html"
      ELSE IF language = "c++" \/ EndsWith(file_path, <<".cpp">>) THEN "c++"
      ELSE "other"

\* The except clauses that end run_app's try.
CaughtInterrupt == <<"report_app_stopped">>
CaughtError == <<"report_error_running">>

\* A blocking run whose except clause for the interrupt is missing: the interrupt is
\* reported as an error.
CheckedRun_no_interrupt(what, env) ==
  <<what>> \o (IF env.proc = "ok" THEN <<>> ELSE <<"report_error_running">>)

\* A blocking subprocess.run(..., check=True) of the python branch.
CheckedRun(what, env) ==
  <<what>> \o (CASE env.proc = "ok" -> <<>>
                 [] env.proc = "interrupt" -> CaughtInterrupt
                 [] OTHER -> CaughtError)

\* An automation whose failure is reported without opening the page.
run_online_cpp_programiz_no_fallback(env) ==
  <<"selenium_start">> \o
  (IF env.auto = "ok"
   THEN <<"open_compiler_page", "inject_source", "click_run", "report_submitted">>
   ELSE <<"report_automation_error">>)

\* run_online_cpp_programiz: start the driver, open the page, wait for the editor,
\* inject the code, click Run; any exception falls back to opening the page.
run_online_cpp_programiz(env) ==
  LET fallback == <<"report_automation_error", "open_web_page">>
  IN  <<"selenium_start">> \o
      (IF env.auto = "driver" THEN fallback
       ELSE <<"open_compiler_page">> \o
            (IF env.auto = "editor" THEN fallback
             ELSE <<"inject_source">> \o
                  (IF env.auto = "inject" THEN fallback
                   ELSE IF env.auto = "button" THEN fallback
                   ELSE <<"click_run", "report_submitted">>)))

\* file_path.replace(".cpp", ".exe" if sys.platform == "win32" else "")
ExePath(file_path, win32) ==
  IF win32
  THEN [i \in 1..Len(file_path) |->
          IF file_path[i] = ".cpp" THEN ".exe" ELSE file_path[i]]
  ELSE RemoveToken(file_path, ".cpp")

\* g++ can exit 0 only when it can write its output beside its input.
Compiles(file_path, fs, env) ==
  /\ env.compileOk
  /\ file_path \in DOMAIN fs
  /\ ExePath(file_path, env.win32) # file_path

\* Launching the compiled program: os.system on win32 (returns at once), a blocking
\* unchecked subprocess.run elsewhere.
LaunchBinary(env) ==
  IF env.win32 THEN <<"exec_binary">>
  ELSE <<"exec_binary">> \o (CASE env.proc = "interrupt" -> CaughtInterrupt
                               [] env.proc = "nostart" -> CaughtError
                               [] OTHER -> <<>>)

\* The python branch: read the file (v2: install the declared requirements), then
\* streamlit or the interpreter.
RunPython(v, file_path, fs, env) ==
  IF ~(file_path \in DOMAIN fs /\ env.readOk) THEN CaughtError
  ELSE LET content == fs[file_path]
       IN  <<"read_file">> \o
           (IF v = "v2" /\ HasRequirements(content) THEN <<"pip_install">> ELSE <<>>) \o
           (IF Contains(content, ImportStreamlit)
            THEN CheckedRun("exec_streamlit", env)
            ELSE CheckedRun("exec_python", env))

\* A C++ branch that ends the call when the compilation fails.
RunCppV2_stops(file_path, fs, env) ==
  IF env.gpp
  THEN <<"compile">> \o
       (IF Compiles(file_path, fs, env) THEN LaunchBinary(env)
        ELSE <<"compile_failed", "report_diagnostics">>)
  ELSE <<"report_using_online">> \o
       (IF file_path \in DOMAIN fs /\ env.readOk
        THEN <<"read_file">> \o run_online_cpp_programiz(env)
        ELSE <<"report_read_error">>)

\* The C++ branch of v2: compile and launch when g++ exists and succeeds, else the
\* online compiler.
RunCppV2(file_path, fs, env) ==
  LET online ==
        <<"report_using_online">> \o
        (IF file_path \in DOMAIN fs /\ env.readOk
         THEN <<"read_file">> \o run_online_cpp_programiz(env)
         ELSE <<"report_read_error">>)
  IN  IF env.gpp
      THEN <<"compile">> \o
           (IF Compiles(file_path, fs, env)
            THEN LaunchBinary(env)
            ELSE <<"compile_failed">> \o online)
      ELSE online

\* The C++ branch of v1: no compiler and a failed compilation are both reported,
\* and end the call.
RunCppV1(file_path, fs, env) ==
  IF ~env.gpp THEN <<"report_no_compiler">>
  ELSE <<"compile">> \o
       (IF Compiles(file_path, fs, env)
        THEN LaunchBinary(env)
        ELSE <<"compile_failed", "report_diagnostics">>)

\* The events of run_app(app_entry).
RunEvents(v, entry, fs, env) ==
  LET file_path == entry.path
      branch == RunBranch(entry)
  IN  <<"report_running">> \o
      (CASE branch = "python" -> RunPython(v, file_path, fs, env)
         [] branch = "html" -> <<"open_browser_file">>
         [] branch = "c++" ->
              IF v = "v2" THEN RunCppV2(file_path, fs, env)
              ELSE RunCppV1(file_path, fs, env)
         [] OTHER ->
              <<"report_unknown_runner">> \o
              (IF env.win32
               THEN <<"startfile">> \o (IF env.proc = "nostart" THEN CaughtError ELSE <<>>)
               ELSE <<>>))

\* run_app never raises and returns nothing: what it does is its events.  (The
\* executable g++ writes is not one of the files the model tracks.)
run_app(v, entry, fs, env) == RunEvents(v, entry, fs, env)

Env(readOk, gpp, compileOk, proc, auto, win32) ==
  [readOk |-> readOk, gpp |-> gpp, compileOk |-> compileOk, proc |-> proc,
   auto |-> auto, win32 |-> win32]

ProcOutcomes == {"ok", "nonzero", "nostart", "interrupt"}
AutoOutcomes == {"ok", "driver", "button"}

\* The environments that make a difference to the branch the entry takes.
RunEnvs(entry) ==
  LET branch == RunBranch(entry)
  IN  CASE branch = "python" ->
             {Env(FALSE, FALSE, FALSE, "ok", "ok", FALSE)}
             \cup {Env(TRUE, FALSE, FALSE, p, "ok", FALSE) : p \in ProcOutcomes}
        [] branch = "html" -> {Env(TRUE, FALSE, FALSE, "ok", "ok", FALSE)}
        [] branch = "c++" ->
             {Env(TRUE, TRUE, TRUE, p, "ok", w) : p \in ProcOutcomes, w \in BOOLEAN}
             \cup {Env(FALSE, g, FALSE, "ok", "ok", FALSE) : g \in BOOLEAN}
             \cup {Env(TRUE, g, FALSE, "ok", a, FALSE) : g \in BOOLEAN, a \in AutoOutcomes}
        [] OTHER ->
             {Env(TRUE, FALSE, FALSE, p, "ok", w) : p \in {"ok", "nostart"}, w \in BOOLEAN}

(***************************************************************************)
(* ASSISTANT GATEWAY: get_copilot_suggestion.  The prompt is a pure string *)
(* the assistant alone reads; what the process does is the environment's.  *)
(* proc is what subprocess.run did: [started, returncode, stdout, stderr]. *)
(***************************************************************************)
ErrorMessagePrefix ==
  <<"E","r","r","o","r","/","M","e","s","s","a","g","e",":",SP>>
ExecutionErrorPrefix ==
  <<"E","x","e","c","u","t","i","o","n",SP,"E","r","r","o","r",":",SP>>

\* str(e) of the exception subprocess.run raises when gh cannot be started.
LaunchCause == <<"n","o",SP,"g","h">>

\* Python's truth value of a str-or-None.
Truthy(x) == x # None /\ x # <<>>

get_copilot_suggestion(proc) ==
  IF ~proc.started THEN ExecutionErrorPrefix \o LaunchCause
  ELSE IF proc.returncode = 0 /\ Strip(proc.stdout) # <<>> THEN Strip(proc.stdout)
  ELSE IF Strip(proc.stderr) # <<>> THEN ErrorMessagePrefix \o Strip(proc.stderr)
  ELSE None

\* A call that also answers None for an output without any fence.
refine_suggestion_fenced(proc) ==
  IF ~proc.started THEN <<"None">>
  ELSE IF proc.returncode = 0 /\ Contains(proc.stdout, <<"~", "~", "~">>)
  THEN Strip(proc.stdout)
  ELSE <<"None">>

\* The refinement flow's own call: stdout when the status is 0, else None.
refine_suggestion(proc) ==
  IF ~proc.started THEN None
  ELSE IF proc.returncode = 0 THEN Strip(proc.stdout)
  ELSE None

(***************************************************************************)
(* The texts the model's assistant and user produce.                       *)
(***************************************************************************)
TagPy == <<"p","y">>
TagCss == <<"c","s","s">>
CodeSt ==
  <<"#","r","e","q","u","i","r","e","m","e","n","t","s",":","x",NL>> \o ImportStreamlit
CodePy == <<"x","=","1">>
CodeCss == <<"a","{","}">>

FencedBlock(tag, code) == Fence \o tag \o <<NL>> \o code \o <<NL>> \o Fence

\* One python block after a line of prose; a css block and a python block; prose only.
RespOne == <<"h","i",NL>> \o FencedBlock(TagPy, CodeSt)
RespTwo == FencedBlock(TagCss, CodeCss) \o <<NL>> \o FencedBlock(TagPy, CodePy) \o <<NL>>
RespProse == <<"n","o">>
Responses == {RespOne, RespTwo, RespProse}

Diagnostic == <<"b","a","d">>

Proc(started, returncode, stdout, stderr) ==
  [started |-> started, returncode |-> returncode, stdout |-> stdout, stderr |-> stderr]

\* What one invocation of the assistant can do.
GatewayResults ==
  {Proc(TRUE, 0, r, <<>>) : r \in Responses}
    \cup {Proc(TRUE, 1, <<>>, Diagnostic), Proc(TRUE, 1, RespOne, <<>>),
          Proc(TRUE, 0, <<>>, <<>>), Proc(FALSE, 0, <<>>, <<>>)}

\* The invocation failed: the process could not be started, exited non-zero, or
\* produced no output.
GatewayFailed(proc) ==
  \/ ~proc.started
  \/ proc.returncode # 0
  \/ Strip(proc.stdout) = <<>>

\* What the gh process did, as an event of the step that invoked it.
GatewayEvent(proc) ==
  IF ~proc.started THEN "gh_not_started"
  ELSE IF proc.returncode # 0 THEN "gh_exit_nonzero"
  ELSE IF Strip(proc.stdout) = <<>> THEN "gh_no_output"
  ELSE "gh_exit_zero"

GatewayFailureEvents == {"gh_not_started", "gh_exit_nonzero", "gh_no_output"}

Invoked(proc) == <<"invoke_gateway", GatewayEvent(proc)>>

Query == <<"t","o","d","o">>
Queries == {<<SP>>, Query}
Names == {<<"app">>}
Times == {"t1"}
LanguagesOf(v) ==
  IF v = "v2" THEN {"Python", "HTML", "C++"} ELSE {"Python", "HTML", "C++", "Auto"}

\* The file names the user types instead of the default, for block i (0-based).
Overrides(v, i) ==
  IF v = "v1" THEN {<<"main", ".py">>, <<"notes">>}
  ELSE IF i = 0 THEN {<<"notes">>}
  ELSE {<<"main", ".py">>}

(***************************************************************************)
(* ARTIFACT MATERIALIZER: the naming rules of the create flows.            *)
(***************************************************************************)
W_python == <<"p","y","t","h","o","n">>
W_py == <<"p","y">>
W_html == <<"h","t","m","l">>
W_cpp == <<"c","p","p">>
W_cxx == <<"c","+","+">>
W_css == <<"c","s","s">>
W_js == <<"j","s">>
W_javascript == <<"j","a","v","a","s","c","r","i","p","t">>

\* v2, multi-file: the extension of a block from its tag.
TagExt(lang) ==
  IF Contains(lang, W_python) \/ Contains(lang, W_py) THEN ".py"
  ELSE IF Contains(lang, W_html) THEN ".html"
  ELSE IF Contains(lang, W_cpp) \/ Contains(lang, W_cxx) THEN ".cpp"
  ELSE IF Contains(lang, W_css) THEN ".css"
  ELSE IF Contains(lang, W_js) \/ Contains(lang, W_javascript) THEN ".js"
  ELSE ".txt"

\* v2, multi-file: the default name of block i (0-based).
DefaultFname(i, ext) ==
  IF i = 0 /\ ext = ".py" THEN <<"main", ".py">>
  ELSE IF i = 0 /\ ext = ".html" THEN <<"index", ".html">>
  ELSE IF i = 0 /\ ext = ".cpp" THEN <<"main", ".cpp">>
  ELSE <<"file_">> \o Str(i) \o <<ext>>

\* v2, single file: the extension from the chosen language, then from the tag.
SingleExt(selected_language, lang) ==
  IF selected_language = "HTML" THEN ".html"
  ELSE IF selected_language = "C++" THEN ".cpp"
  ELSE IF Contains(lang, W_python) THEN ".py"
  ELSE IF Contains(lang, W_html) THEN ".html"
  ELSE ".py"

\* v2, raw output: the extension from the chosen language.
RawExt(selected_language) ==
  IF LangLower(selected_language) = "python" THEN ".py"
  ELSE IF LangLower(selected_language) = "html" THEN ".html"
  ELSE IF LangLower(selected_language) = "c++" THEN ".cpp"
  ELSE ".txt"

W_def == <<"d","e","f",SP>>
W_import == <<"i","m","p","o","r","t",SP>>
W_htmltag == <<"<","h","t","m","l",">">>
W_include == <<"#","i","n","c","l","u","d","e">>

\* v1: the extension from the chosen language; for Auto, from the code.
ExtV1(selected_language, extracted_code) ==
  IF selected_language = "HTML" THEN ".html"
  ELSE IF selected_language = "C++" THEN ".cpp"
  ELSE IF selected_language = "Auto"
  THEN IF Contains(extracted_code, W_def) \/ Contains(extracted_code, W_import) THEN ".py"
       ELSE IF Contains(Lower(extracted_code), W_htmltag) THEN ".html"
       ELSE IF Contains(extracted_code, W_include) THEN ".cpp"
       ELSE ".py"
  ELSE ".py"

\* v1: the name written for the name the user entered: the extension is appended
\* only to a name that has no dot at all.
FilenameV1(filename, ext) ==
  IF ~EndsWith(filename, <<ext>>) /\ ~HasDot(filename) THEN filename \o <<ext>>
  ELSE filename

\* v1: f"generated_app_{int(time.time())}{ext}"
DefaultFilenameV1(now, ext) == <<"generated_app_", now, ext>>

\* Prompt.ask(..., default=d): the default for an empty answer.
PromptAsk(entered, default) == IF entered = <<>> THEN default ELSE entered

\* v2, multi-file: the name block i is written under, for what the user entered.
BlockFname(i, lang, entered) == PromptAsk(entered, DefaultFname(i, TagExt(lang)))

FeaturesList == <<"standard features">>
RawFeatures == <<"raw_output">>

\* open(path, "w").write(content)
WriteFile(fs, path, content) == (abspath(path) :> content) @@ fs

(***************************************************************************)
(* THE INTERACTIVE LOOP OF main.  One action per answer of the user: it    *)
(* runs the code from that prompt to the next one.  loc holds the locals   *)
(* of the pass, out the events of the step.                                *)
(***************************************************************************)
NoLoc == [pass |-> "none"]
NoFiles == <<>>
NoDoc == [prose |-> <<>>, blocks |-> <<>>]

Registry == load_apps_registry(regFile)

Init ==
  /\ variant \in {"v1", "v2"}
  /\ pc = "menu"
  /\ regFile \in {AbsentFile, CorruptFile, ListFile(<<>>)}
  /\ files = NoFiles
  /\ dirs = {}
  /\ loc = NoLoc
  /\ out = <<>>
  /\ doc = NoDoc
  /\ blocksOut = <<>>
  /\ codeOut = None
  /\ xpc = "idle"

\* The pass ends (continue, or the end of the loop body).
EndPass(events) ==
  /\ pc' = "done"
  /\ loc' = NoLoc
  /\ out' = events

\* while True: the menu is shown again.
LoopBack ==
  /\ pc = "done"
  /\ pc' = "menu"
  /\ out' = <<>>
  /\ UNCHANGED <<variant, regFile, files, dirs, loc, harnessVars>>

\* An exception no handler of main catches: the program ends with a traceback.
Crash(events) ==
  /\ pc' = "crashed"
  /\ loc' = NoLoc
  /\ out' = events \o <<"uncaught_exception">>

\* "Exit"
MenuExit ==
  /\ pc = "menu"
  /\ pc' = "exited"
  /\ out' = <<"report_goodbye">>
  /\ UNCHANGED <<variant, regFile, files, dirs, loc, harnessVars>>

AskedV2 == <<"ask_query", "ask_language", "ask_color", "ask_complexity", "ask_advanced">>
AskedV1 == <<"ask_query", "ask_language">>

\* v2, "Create New App": the questions, the assistant, the extraction, up to the
\* prompt that follows (save the app, or save the raw output).
CreateAskV2(user_query, selected_language, is_complex, proc, suggestion, code_blocks) ==
  LET locals == [pass |-> "create", user_query |-> user_query,
                 selected_language |-> selected_language, is_complex |-> is_complex,
                 proc |-> proc, suggestion |-> suggestion, code_blocks |-> code_blocks]
  IN  /\ UNCHANGED <<variant, regFile, files, dirs, harnessVars>>
      /\ IF Strip(user_query) = <<>> THEN EndPass(<<"ask_query">>)
         ELSE IF ~Truthy(suggestion)
         THEN EndPass(AskedV2 \o Invoked(proc) \o <<"report_gateway_failed",
                                  "print_separator">>)
         ELSE IF code_blocks # <<>>
         THEN /\ pc' = "ask_save"
              /\ loc' = locals
              /\ out' = AskedV2 \o Invoked(proc) \o <<"show_response">>
         ELSE /\ pc' = "ask_save_raw"
              /\ loc' = locals
              /\ out' = AskedV2 \o Invoked(proc) \o <<"show_response",
                                     "report_no_blocks">>

MenuCreateV2 ==
  /\ pc = "menu"
  /\ variant = "v2"
  /\ Len(Registry) < MaxApps
  /\ \E proc \in GatewayResults :
       LET suggestion == get_copilot_suggestion(proc)
           code_blocks == IF Truthy(suggestion) THEN extract_code_blocks(suggestion)
                          ELSE <<>>
       IN  \E user_query \in Queries, selected_language \in LanguagesOf("v2"),
              is_complex \in BOOLEAN :
             CreateAskV2(user_query, selected_language, is_complex, proc,
                         suggestion, code_blocks)

\* A layout rule that needs both the mode and several blocks for a directory.
UseDirectory_both(is_complex, code_blocks) == is_complex /\ Len(code_blocks) > 1

\* A rule that keeps the path of the last file written.
SavedPath_last(i, full_path, saved_path) == full_path

\* v2: the app gets a directory of its own (else one file in the working directory).
UseDirectory(is_complex, code_blocks) == is_complex \/ Len(code_blocks) > 1

\* v2, multi-file: saved_path after block i is written to full_path.
SavedPath(i, full_path, saved_path) == IF i = 0 THEN full_path ELSE saved_path

\* The record the create flow of v2 adds.
RegisterV2(app_name, path, features, now) ==
  add_app_to_registry("v2", regFile, app_name, loc.user_query, loc.selected_language,
                      path, features, now)

\* v2, "Code detected. Do you want to save this app?": the name, the features, then
\* the directory (multi-file) or the one file and its record (single file).
ConfirmSaveV2(yes, app_name, ok, now) ==
  LET lang == loc.code_blocks[1].lang
      code == loc.code_blocks[1].code
      filename == app_name \o <<SingleExt(loc.selected_language, lang)>>
      asked == <<"ask_save", "ask_name", "ask_features">>
  IN  /\ UNCHANGED <<variant, harnessVars>>
      /\ IF ~yes
         THEN /\ EndPass(<<"ask_save", "print_separator">>)
              /\ UNCHANGED <<regFile, files, dirs>>
         ELSE IF UseDirectory(loc.is_complex, loc.code_blocks)
         THEN IF ~ok
              THEN /\ Crash(asked \o <<"mkdir_failed">>)
                   /\ UNCHANGED <<regFile, files, dirs>>
              ELSE /\ dirs' = dirs \cup {abspath(app_name)}
                   /\ pc' = "ask_filename"
                   /\ loc' = [pass |-> "create", user_query |-> loc.user_query,
                              selected_language |-> loc.selected_language,
                              is_complex |-> loc.is_complex, proc |-> loc.proc,
                              suggestion |-> loc.suggestion,
                              code_blocks |-> loc.code_blocks,
                              app_name |-> app_name, i |-> 0, saved_path |-> <<>>,
                              written |-> <<>>]
                   /\ out' = asked \o <<"mkdir", "report_created_dir", "ask_filename">>
                   /\ UNCHANGED <<regFile, files>>
         ELSE IF ~ok
              THEN /\ Crash(asked \o <<"write_failed">>)
                   /\ UNCHANGED <<regFile, files, dirs>>
              ELSE /\ files' = WriteFile(files, filename, code)
                   /\ regFile' = RegisterV2(app_name, filename, FeaturesList, now)
                   /\ pc' = "ask_run"
                   /\ loc' = [pass |-> "create", user_query |-> loc.user_query,
                              selected_language |-> loc.selected_language,
                              is_complex |-> loc.is_complex, proc |-> loc.proc,
                              suggestion |-> loc.suggestion,
                              code_blocks |-> loc.code_blocks,
                              app_name |-> app_name, saved_path |-> filename,
                              written |-> <<filename>>]
                   /\ out' = asked \o <<"write", "report_saved", "add_registry", "ask_run">>
                   /\ UNCHANGED dirs

AnswerSaveV2 ==
  /\ pc = "ask_save"
  /\ variant = "v2"
  /\ \E yes \in BOOLEAN, app_name \in Names, ok \in BOOLEAN, now \in Times :
       ConfirmSaveV2(yes, app_name, ok, now)

\* A loop that leaves for the record after its first block.
IsLastBlock_first(i, code_blocks) == i = 0

\* v2, multi-file: block i (0-based) ends the loop over the blocks; the record is
\* added after the loop.
IsLastBlock(i, code_blocks) == i + 1 = Len(code_blocks)

\* v2, "Enter filename for this block": block i is written; after the last block
\* the record is added.
SaveBlockV2(entered, ok, now) ==
  LET i == loc.i
      lang == loc.code_blocks[i + 1].lang
      code == loc.code_blocks[i + 1].code
      fname == BlockFname(i, lang, entered)
      full_path == join(loc.app_name, fname)
      saved_path == SavedPath(i, full_path, loc.saved_path)
      last == IsLastBlock(i, loc.code_blocks)
  IN  /\ UNCHANGED <<variant, dirs, harnessVars>>
      /\ IF ~ok
         THEN /\ Crash(<<"write_failed">>)
              /\ UNCHANGED <<regFile, files>>
         ELSE /\ files' = WriteFile(files, full_path, code)
              /\ loc' = [loc EXCEPT !.i = i + 1, !.saved_path = saved_path,
                                    !.written = Append(loc.written, full_path)]
              /\ IF last
                 THEN /\ regFile' = RegisterV2(loc.app_name, saved_path, FeaturesList, now)
                      /\ pc' = "ask_run"
                      /\ out' = <<"write", "report_saved", "add_registry", "ask_run">>
                 ELSE /\ pc' = "ask_filename"
                      /\ out' = <<"write", "report_saved", "ask_filename">>
                      /\ UNCHANGED regFile

AnswerFilenameV2 ==
  /\ pc = "ask_filename"
  /\ \E entered \in {<<>>} \cup Overrides("v2", loc.i), ok \in BOOLEAN, now \in Times :
       SaveBlockV2(entered, ok, now)

\* A raw save that writes the file whatever the answer.
ConfirmSaveRawV2_always(yes, app_name, ok, now) ==
  /\ UNCHANGED <<variant, dirs, regFile, harnessVars>>
  /\ files' = WriteFile(files, app_name \o <<RawExt(loc.selected_language)>>,
                        loc.suggestion)
  /\ EndPass(<<"ask_save_raw", "write", "print_separator">>)

\* v2, "Do you want to save the raw output as a file?"
ConfirmSaveRawV2(yes, app_name, ok, now) ==
  LET filename == app_name \o <<RawExt(loc.selected_language)>>
      asked == <<"ask_save_raw", "ask_name">>
  IN  /\ UNCHANGED <<variant, dirs, harnessVars>>
      /\ IF ~yes
         THEN /\ EndPass(<<"ask_save_raw", "print_separator">>)
              /\ UNCHANGED <<regFile, files>>
         ELSE IF ~ok
         THEN /\ Crash(asked \o <<"write_failed">>)
              /\ UNCHANGED <<regFile, files>>
         ELSE /\ files' = WriteFile(files, filename, loc.suggestion)
              /\ regFile' = RegisterV2(app_name, filename, RawFeatures, now)
              /\ pc' = "ask_run"
              /\ loc' = [pass |-> "create", user_query |-> loc.user_query,
                         selected_language |-> loc.selected_language,
                         is_complex |-> loc.is_complex, proc |-> loc.proc,
                         suggestion |-> loc.suggestion,
                         code_blocks |-> loc.code_blocks,
                         app_name |-> app_name, saved_path |-> filename,
                         written |-> <<filename>>]
              /\ out' = asked \o <<"write", "report_saved", "add_registry", "ask_run">>

AnswerSaveRawV2 ==
  /\ pc = "ask_save_raw"
  /\ \E yes \in BOOLEAN, app_name \in Names, ok \in BOOLEAN, now \in Times :
       ConfirmSaveRawV2(yes, app_name, ok, now)

\* A temporary entry built without the language.
TempEntry_no_language ==
  [name |-> loc.app_name, path |-> abspath(loc.saved_path)]

\* The temporary entry both create flows run.
TempEntry ==
  [name |-> loc.app_name, path |-> abspath(loc.saved_path),
   language |-> loc.selected_language]

\* "Run this app now?" (after a raw save: "Try to run this file?")
ConfirmRun(yes, env) ==
  /\ UNCHANGED <<variant, regFile, dirs, harnessVars>>
  /\ IF ~yes
     THEN /\ EndPass(<<"print_separator">>)
          /\ UNCHANGED files
     ELSE /\ EndPass(run_app(variant, TempEntry, files, env) \o <<"print_separator">>)
          /\ UNCHANGED files

AnswerRun ==
  /\ pc = "ask_run"
  /\ \/ ConfirmRun(FALSE, Env(TRUE, FALSE, FALSE, "ok", "ok", FALSE))
     \/ \E env \in RunEnvs(TempEntry) : ConfirmRun(TRUE, env)

\* v1, "Create New App": the questions, the assistant, extract_code, up to the
\* prompt "Code detected. Do you want to save and run this app?".
CreateAskV1(user_query, selected_language, proc, suggestion, extracted_code) ==
      /\ UNCHANGED <<variant, regFile, files, dirs, harnessVars>>
      /\ IF Strip(user_query) = <<>> THEN EndPass(<<"ask_query">>)
         ELSE IF ~Truthy(suggestion)
         THEN EndPass(AskedV1 \o Invoked(proc) \o <<"report_gateway_failed",
                                  "print_separator">>)
         ELSE IF Truthy(extracted_code)
         THEN /\ pc' = "ask_save"
              /\ loc' = [pass |-> "create", user_query |-> user_query,
                         selected_language |-> selected_language, proc |-> proc,
                         suggestion |-> suggestion, extracted_code |-> extracted_code]
              /\ out' = AskedV1 \o Invoked(proc) \o <<"show_response">>
         ELSE EndPass(AskedV1 \o Invoked(proc) \o <<"show_response", "print_separator">>)

MenuCreateV1 ==
  /\ pc = "menu"
  /\ variant = "v1"
  /\ Len(Registry) < MaxApps
  /\ \E proc \in GatewayResults :
       LET suggestion == get_copilot_suggestion(proc)
           extracted_code == IF Truthy(suggestion) THEN extract_code(suggestion)
                             ELSE None
       IN  \E user_query \in Queries, selected_language \in LanguagesOf("v1") :
             CreateAskV1(user_query, selected_language, proc, suggestion, extracted_code)

\* v1, the save prompt: the extension, the file name, then inside try: the file,
\* the record; except Exception reports and the loop goes on.
ConfirmSaveV1(yes, entered, ok, now) ==
  LET ext == ExtV1(loc.selected_language, loc.extracted_code)
      filename == FilenameV1(PromptAsk(entered, DefaultFilenameV1(now, ext)), ext)
      asked == <<"ask_save", "ask_filename">>
  IN  /\ UNCHANGED <<variant, dirs, harnessVars>>
      /\ IF ~yes
         THEN /\ EndPass(<<"ask_save", "print_separator">>)
              /\ UNCHANGED <<regFile, files>>
         ELSE IF ~ok
         THEN /\ EndPass(asked \o <<"write_failed", "report_save_error", "print_separator">>)
              /\ UNCHANGED <<regFile, files>>
         ELSE /\ files' = WriteFile(files, filename, loc.extracted_code)
              /\ regFile' = add_app_to_registry("v1", regFile, filename, loc.user_query,
                                                loc.selected_language, filename, <<>>, now)
              /\ pc' = "ask_run"
              /\ loc' = [pass |-> "create", user_query |-> loc.user_query,
                         selected_language |-> loc.selected_language, proc |-> loc.proc,
                         suggestion |-> loc.suggestion,
                         extracted_code |-> loc.extracted_code,
                         app_name |-> filename, saved_path |-> filename,
                         written |-> <<filename>>]
              /\ out' = asked \o <<"write", "report_saved", "add_registry", "ask_run">>

AnswerSaveV1 ==
  /\ pc = "ask_save"
  /\ variant = "v1"
  /\ \E yes \in BOOLEAN, entered \in {<<>>} \cup Overrides("v1", 0), ok \in BOOLEAN,
        now \in Times :
       ConfirmSaveV1(yes, entered, ok, now)

\* "View/Run Existing Apps": the table, or the report that there is none.
MenuView ==
  /\ pc = "menu"
  /\ UNCHANGED <<variant, regFile, files, dirs, harnessVars>>
  /\ LET registry == Registry
     IN  IF Len(registry) = 0 THEN EndPass(<<"report_no_apps">>)
         ELSE /\ pc' = "ask_app_id"
              /\ loc' = [pass |-> "view", registry |-> registry]
              /\ out' = <<"show_table", "ask_app_id">>

\* next((a for a in registry if a["id"] == app_id), None): the index of the first
\* record with that id, 0 for None.
FindById(registry, app_id) ==
  LET hits == {k \in 1..Len(registry) : registry[k].id = app_id}
  IN  IF hits = {} THEN 0 ELSE CHOOSE k \in hits : \A j \in hits : k <= j

Back == <<"back">>

\* "Enter App ID to run (or 'back' to go back)"
EnterAppId(app_id, env) ==
  LET k == FindById(loc.registry, app_id)
  IN  /\ UNCHANGED <<variant, regFile, dirs, harnessVars>>
      /\ IF app_id = Back
         THEN /\ EndPass(<<>>)
              /\ UNCHANGED files
         ELSE IF k = 0
         THEN /\ EndPass(<<"report_not_found">>)
              /\ UNCHANGED files
         ELSE /\ EndPass(run_app(variant, loc.registry[k], files, env))
              /\ UNCHANGED files

AnswerAppId ==
  /\ pc = "ask_app_id"
  /\ \/ EnterAppId(Back, Env(TRUE, FALSE, FALSE, "ok", "ok", FALSE))
     \/ EnterAppId(Str(Len(loc.registry) + 1), Env(TRUE, FALSE, FALSE, "ok", "ok", FALSE))
     \/ \E k \in 1..Len(loc.registry) : \E env \in RunEnvs(loc.registry[k]) :
          EnterAppId(loc.registry[k].id, env)

\* v2, "Refine/Fix Existing App": the list to select from, or the report that
\* there is none.
MenuRefine ==
  /\ pc = "menu"
  /\ variant = "v2"
  /\ UNCHANGED <<variant, regFile, files, dirs, harnessVars>>
  /\ LET registry == Registry
     IN  IF Len(registry) = 0 THEN EndPass(<<"report_no_apps_to_refine">>)
         ELSE /\ pc' = "select_app"
              /\ loc' = [pass |-> "refine", registry |-> registry]
              /\ out' = <<"ask_select_app">>

\* A handler that reports the failure and goes on with no code.
OnReadError_goes_on(selected_app) ==
  /\ pc' = "ask_refinement"
  /\ loc' = [pass |-> "refine", selected_app |-> selected_app, existing_code |-> <<>>]
  /\ out' = <<"report_read_error", "ask_refinement">>

\* v2, the except clause around the read of the app's file: report, continue.
OnReadError(selected_app) == EndPass(<<"report_read_error">>)

\* v2, "Select App to Refine": the choice k of the list (its text is
\* f"{id}: {name}", and the id before the colon is looked up), then the file is read.
SelectApp(k, readOk) ==
  LET app_id == loc.registry[k].id
      found == FindById(loc.registry, app_id)
      selected_app == loc.registry[found]
  IN  /\ UNCHANGED <<variant, regFile, files, dirs, harnessVars>>
      /\ IF ~(selected_app.path \in DOMAIN files /\ readOk)
         THEN OnReadError(selected_app)
         ELSE /\ pc' = "ask_refinement"
              /\ loc' = [pass |-> "refine", selected_app |-> selected_app,
                         existing_code |-> files[selected_app.path]]
              /\ out' = <<"read_file", "ask_refinement">>

AnswerSelectApp ==
  /\ pc = "select_app"
  /\ \E k \in 1..Len(loc.registry), readOk \in BOOLEAN : SelectApp(k, readOk)

\* v2, "Describe the fix or new feature": the assistant is asked, the blocks are
\* extracted.
Refine(proc) ==
  LET suggestion == refine_suggestion(proc)
      new_code_blocks == extract_code_blocks(suggestion)
  IN  /\ UNCHANGED <<variant, regFile, files, dirs, harnessVars>>
      /\ IF ~Truthy(suggestion)
         THEN EndPass(Invoked(proc) \o <<"report_refinement_failed">>)
         ELSE IF new_code_blocks = <<>>
         THEN EndPass(Invoked(proc) \o <<"show_suggestion">>)
         ELSE /\ pc' = "ask_overwrite"
              /\ loc' = [pass |-> "refine", selected_app |-> loc.selected_app,
                         existing_code |-> loc.existing_code, proc |-> proc,
                         suggestion |-> suggestion, new_code_blocks |-> new_code_blocks]
              /\ out' = Invoked(proc) \o <<"show_suggestion", "ask_overwrite">>

AnswerRefinement ==
  /\ pc = "ask_refinement"
  /\ \E proc \in GatewayResults : Refine(proc)

\* An overwrite that takes the code of the last block.
RefinedCode_last(new_code_blocks) == new_code_blocks[Len(new_code_blocks)].code

\* lang, code = new_code_blocks[0]: the code the overwrite writes.
RefinedCode(new_code_blocks) == new_code_blocks[1].code

\* v2, "Do you want to overwrite the existing file with this update?"
ConfirmOverwrite(yes, ok) ==
  /\ UNCHANGED <<variant, regFile, dirs, harnessVars>>
  /\ IF ~yes
     THEN /\ EndPass(<<>>)
          /\ UNCHANGED files
     ELSE IF ~ok
     THEN /\ Crash(<<"write_failed">>)
          /\ UNCHANGED files
     ELSE /\ files' = WriteFile(files, loc.selected_app.path,
                                 RefinedCode(loc.new_code_blocks))
          /\ pc' = "ask_run_updated"
          /\ loc' = loc
          /\ out' = <<"write", "report_updated", "ask_run_updated">>

AnswerOverwrite ==
  /\ pc = "ask_overwrite"
  /\ \E yes \in BOOLEAN, ok \in BOOLEAN : ConfirmOverwrite(yes, ok)

\* v2, "Run updated app?"
ConfirmRunUpdated(yes, env) ==
  /\ UNCHANGED <<variant, regFile, dirs, harnessVars>>
  /\ IF ~yes
     THEN /\ EndPass(<<>>)
          /\ UNCHANGED files
     ELSE /\ EndPass(run_app(variant, loc.selected_app, files, env))
          /\ UNCHANGED files

AnswerRunUpdated ==
  /\ pc = "ask_run_updated"
  /\ \/ ConfirmRunUpdated(FALSE, Env(TRUE, FALSE, FALSE, "ok", "ok", FALSE))
     \/ \E env \in RunEnvs(loc.selected_app) : ConfirmRunUpdated(TRUE, env)

Next ==
  \/ LoopBack
  \/ MenuExit
  \/ MenuCreateV2
  \/ AnswerSaveV2
  \/ AnswerFilenameV2
  \/ AnswerSaveRawV2
  \/ AnswerRun
  \/ MenuCreateV1
  \/ AnswerSaveV1
  \/ MenuView
  \/ AnswerAppId
  \/ MenuRefine
  \/ AnswerSelectApp
  \/ AnswerRefinement
  \/ AnswerOverwrite
  \/ AnswerRunUpdated

Spec == Init /\ [][Next]_vars

(***************************************************************************)
(* THE EXTRACTORS ON THEIR OWN: extract_code_blocks and extract_code       *)
(* applied to markdown documents made of well-formed fenced blocks.        *)
(***************************************************************************)
\* The most fenced blocks of a document.
MaxBlocks == 2

CodeMainXY == <<"m","a","i","n",NL,"x",SP,"y">>
CodePadded == <<SP,"a",SP>>

\* The tags (none, py, c++) and the codes of the blocks of the documents.
DocTags == {<<>>, TagPy, W_cxx}
DocCodes == {CodePy, CodeMainXY, CodePadded}
DocBlocks == [tag : DocTags, code : DocCodes]
DocProse == {<<>>, <<"h","i",NL>>}

Docs ==
  [prose : DocProse,
   blocks : UNION {[1..n -> DocBlocks] : n \in 0..MaxBlocks}]

\* The text of a document: the prose, then each block on lines of its own.
RECURSIVE RenderBlocks(_)
RenderBlocks(blocks) ==
  IF blocks = <<>> THEN <<>>
  ELSE FencedBlock(Head(blocks).tag, Head(blocks).code) \o <<NL>>
         \o RenderBlocks(Tail(blocks))

Render(d) == d.prose \o RenderBlocks(d.blocks)

InitExtract ==
  /\ variant = "v2"
  /\ pc = "menu"
  /\ regFile = AbsentFile
  /\ files = NoFiles
  /\ dirs = {}
  /\ loc = NoLoc
  /\ out = <<>>
  /\ doc \in Docs
  /\ blocksOut = <<>>
  /\ codeOut = None
  /\ xpc = "in"

\* code_blocks = extract_code_blocks(text)
ExtractBlocks ==
  /\ xpc \in {"in", "code"}
  /\ blocksOut' = extract_code_blocks(Render(doc))
  /\ xpc' = IF xpc = "in" THEN "blocks" ELSE "both"
  /\ UNCHANGED <<mainVars, doc, codeOut>>

\* code = extract_code(text)
ExtractCode ==
  /\ xpc \in {"in", "blocks"}
  /\ codeOut' = extract_code(Render(doc))
  /\ xpc' = IF xpc = "in" THEN "code" ELSE "both"
  /\ UNCHANGED <<mainVars, doc, blocksOut>>

NextExtract ==
  \/ ExtractBlocks
  \/ ExtractCode

SpecExtract == InitExtract /\ [][NextExtract]_vars

(***************************************************************************)
(* PROPERTIES                                                              *)
(***************************************************************************)
\* The events of a step, as a set.
Range(s) == {s[k] : k \in 1..Len(s)}
Has(events, e) == e \in Range(events)

\* The record stored last.
LastRecord == Registry[Len(Registry)]

\* int(id) for an id of decimal digits.
DigitValue(c) == CHOOSE d \in 0..9 : Digit(d) = c

RECURSIVE IdNumber(_)
IdNumber(id) ==
  IF Len(id) = 0 THEN 0
  ELSE 10 * IdNumber(SubSeq(id, 1, Len(id) - 1)) + DigitValue(id[Len(id)])

\* C1: a call of add_app_to_registry that returns leaves exactly one more record in
\* the stored registry, and every record stored before the call is still stored at
\* its position with every field unchanged, whatever the file was when the call
\* started (absent, unparseable, or a list).
C1_AppendOnly ==
  [][Has(out', "add_registry") =>
       LET before == load_apps_registry(regFile)
           after == load_apps_registry(regFile')
       IN  /\ regFile'.kind = "list"
           /\ Len(after) = Len(before) + 1
           /\ \A k \in 1..Len(before) : after[k] = before[k]]_vars

\* A record has just been added to a registry that held one.
C1_Witness ==
  /\ pc = "ask_run"
  /\ Has(out, "add_registry")
  /\ Len(Registry) = 2

\* C2: after every creation no two stored records have the same id, and the id of
\* the new record is, as a number, greater than the id of every record created
\* before it.
C2_IdsIncrease ==
  [][Has(out', "add_registry") =>
       LET after == load_apps_registry(regFile')
           n == Len(after)
       IN  /\ \A k \in 1..(n - 1) : IdNumber(after[n].id) > IdNumber(after[k].id)
           /\ \A i, j \in 1..n : i # j => after[i].id # after[j].id]_vars

\* Two creations have given the ids 1 and 2.
C2_Witness ==
  /\ Len(Registry) = 2
  /\ Registry[1].id = <<"1">>
  /\ Registry[2].id = <<"2">>

\* C3: when the registry file is absent or cannot be parsed, load_apps_registry
\* returns the empty registry, and the menu choices go on as for an empty registry:
\* listing and refining report that there is no app (no table, no selection, no
\* uncaught exception), and a creation stores its record as the first one.
C3_MissingIsEmpty ==
  [][regFile.kind \in {"absent", "corrupt"} =>
       /\ load_apps_registry(regFile) = <<>>
       /\ pc = "menu" =>
            /\ pc' \in {"done", "exited", "ask_save", "ask_save_raw"}
            /\ ~Has(out', "show_table")
            /\ ~Has(out', "ask_select_app")
       /\ Has(out', "add_registry") =>
            /\ Len(load_apps_registry(regFile')) = 1
            /\ load_apps_registry(regFile')[1].id = <<"1">>]_vars

\* The list was asked for while the file could not be parsed: "no apps" is reported.
C3_Witness ==
  /\ regFile.kind = "corrupt"
  /\ pc = "done"
  /\ out = <<"report_no_apps">>

\* C4: in the create flow, when the invocation of the assistant fails (it cannot be
\* started, exits non-zero with or without diagnostic text, or produces no output),
\* the failure is shown, the pass ends there (nothing is offered for saving) and
\* neither a file nor a registry record is written.
C4_FailureAbandons ==
  [][(pc = "menu" /\ Range(out') \cap GatewayFailureEvents # {}) =>
       /\ pc' = "done"
       /\ Has(out', "report_gateway_failed") \/ Has(out', "show_response")
       /\ UNCHANGED <<regFile, files>>]_vars

\* What the claim of C5 expects for a document: the tag and the code of every
\* block, trimmed, in document order.
ExpectedBlocks(d) ==
  [k \in 1..Len(d.blocks) |->
     [lang |-> Strip(d.blocks[k].tag), code |-> Strip(d.blocks[k].code)]]

\* C5: for a markdown text of N >= 0 well-formed fenced blocks, extract_code_blocks
\* returns exactly the N pairs (tag, code) of the blocks, trimmed, in document order;
\* the empty list for N = 0; blocks tagged c++ included.
C5_ExtractsEveryBlock ==
  xpc \in {"blocks", "both"} => blocksOut = ExpectedBlocks(doc)

\* path is a file inside the directory dir.
InDir(path, dir) ==
  /\ Len(path) > Len(dir) + 1
  /\ SubSeq(path, 1, Len(dir)) = dir
  /\ path[Len(dir) + 1] = "/"

\* The create flow of v2 has just saved the blocks it extracted.
SavedBlocksV2 ==
  /\ pc = "ask_run"
  /\ variant = "v2"
  /\ loc.code_blocks # <<>>

\* C6: when the user saves a generated app, one file <app_name><ext> is written in
\* the working directory if and only if the mode is single-file and exactly one
\* block was extracted; otherwise the directory <app_name> exists and every block
\* is written to a file inside it.  In both layouts the first file written is
\* the path of the record.
C6_Layout ==
  SavedBlocksV2 =>
    LET n == Len(loc.code_blocks)
        single == ~loc.is_complex /\ n = 1
        oneFile == /\ Len(loc.written) = 1
                   /\ \E ext \in DotTokens : loc.written[1] = loc.app_name \o <<ext>>
    IN  /\ LastRecord.path = abspath(loc.written[1])
        /\ single <=> oneFile
        /\ single => files[LastRecord.path] = loc.code_blocks[1].code
        /\ ~single =>
             /\ abspath(loc.app_name) \in dirs
             /\ Len(loc.written) = n
             /\ \A k \in 1..n :
                  /\ InDir(loc.written[k], loc.app_name)
                  /\ abspath(loc.written[k]) \in DOMAIN files
                  /\ (\A j \in (k + 1)..n : loc.written[j] # loc.written[k])
                       => files[abspath(loc.written[k])] = loc.code_blocks[k].code

\* Two blocks were extracted in single-file mode and both are saved in the directory.
C6_Witness ==
  /\ SavedBlocksV2
  /\ ~loc.is_complex
  /\ Len(loc.code_blocks) = 2
  /\ Len(loc.written) = 2
  /\ abspath(loc.app_name) \in dirs

\* The file of path has the name name.
Named(path, name) ==
  /\ Len(path) >= Len(name)
  /\ SubSeq(path, Len(path) - Len(name) + 1, Len(path)) = name
  /\ Len(path) > Len(name) => path[Len(path) - Len(name)] = "/"

FirstNamed(written, name) ==
  written[CHOOSE k \in 1..Len(written) :
            /\ Named(written[k], name)
            /\ \A j \in 1..(k - 1) : ~Named(written[j], name)]

\* The conventional entry point among the files written: main.py, else index.html,
\* else main.cpp, else the first file.
EntryPoint(written) ==
  IF \E k \in 1..Len(written) : Named(written[k], <<"main", ".py">>)
  THEN FirstNamed(written, <<"main", ".py">>)
  ELSE IF \E k \in 1..Len(written) : Named(written[k], <<"index", ".html">>)
  THEN FirstNamed(written, <<"index", ".html">>)
  ELSE IF \E k \in 1..Len(written) : Named(written[k], <<"main", ".cpp">>)
  THEN FirstNamed(written, <<"main", ".cpp">>)
  ELSE written[1]

\* C7 (as stated): the path of every record the create flow adds is the
\* conventional entry point of the app: main.py if a file of the app has that name,
\* else index.html, else main.cpp, else the first file saved.
C7_EntryPointRecorded ==
  pc = "ask_run" => LastRecord.path = abspath(EntryPoint(loc.written))

\* C7 (amended): the path of every record the create flow adds is the absolute path
\* of the first file that pass saved (saved_path), whatever the names of the files
\* saved after it.
C7_FirstFileRecorded ==
  pc = "ask_run" =>
    /\ loc.saved_path = loc.written[1]
    /\ LastRecord.path = abspath(loc.saved_path)

\* The second block was saved as main.py, the first one under another name, and the
\* record holds the first.
C7_Witness ==
  /\ pc = "ask_run"
  /\ Len(loc.written) = 2
  /\ Named(loc.written[2], <<"main", ".py">>)
  /\ ~Named(loc.written[1], <<"main", ".py">>)
  /\ LastRecord.path = abspath(loc.written[1])

\* The name C8 prescribes for an answer to the filename prompt.
Prescribed(entered, default, ext) ==
  IF entered = <<>> THEN default
  ELSE IF EndsWith(entered, <<ext>>) THEN entered
  ELSE entered \o <<ext>>

\* C8: the file written for a block has the inferred extension: a name the user
\* enters that does not end with it gets it appended (and keeps what the user
\* typed); for every block of a multi-file app (v2) and for the single file of v1.
C8_OverrideGetsExtension ==
  [][/\ (pc = "ask_filename" /\ Has(out', "write")) =>
          LET i == loc.i
              ext == TagExt(loc.code_blocks[i + 1].lang)
          IN  \E entered \in {<<>>} \cup Overrides("v2", i) :
                loc'.written[i + 1] =
                  join(loc.app_name, Prescribed(entered, DefaultFname(i, ext), ext))
     /\ (pc = "ask_save" /\ variant = "v1" /\ Has(out', "write")) =>
          LET ext == ExtV1(loc.selected_language, loc.extracted_code)
          IN  \E entered \in {<<>>} \cup Overrides("v1", 0), now \in Times :
                loc'.written[1] = Prescribed(entered, DefaultFilenameV1(now, ext), ext)]_vars

\* The strategy a call of run_app took, read from its events.
Strategy(events) ==
  IF Has(events, "report_unknown_runner") THEN "other"
  ELSE IF Has(events, "open_browser_file") THEN "html"
  ELSE IF \/ Has(events, "compile")
          \/ Has(events, "report_using_online")
          \/ Has(events, "report_no_compiler")
  THEN "c++"
  ELSE "python"

\* C9: run_app takes the strategy of the language of the entry when that language
\* is Python, HTML or C++, whatever the extension of the path (here for the entry
\* the create flow runs).
C9_LanguageDecides ==
  [][(pc = "ask_run" /\ Has(out', "report_running")
        /\ TempEntry.language \in {"Python", "HTML", "C++"}) =>
       Strategy(out') = LangLower(TempEntry.language)]_vars

FallbackEvents ==
  {"report_using_online", "selenium_start", "open_compiler_page", "open_web_page"}

RunPrompts == {"ask_run", "ask_app_id", "ask_run_updated"}

RunnableEntries ==
  IF pc = "ask_run" THEN {TempEntry}
  ELSE IF pc = "ask_run_updated" THEN {loc.selected_app}
  ELSE IF pc = "ask_app_id" THEN Range(loc.registry)
  ELSE {}

\* C11: in every branch of run_app a failure is caught and reported: a file that
\* cannot be read and a command that exits non-zero or cannot be started as an
\* error, an interrupt of a blocking run as a normal stop; run_app returns, the pass
\* ends and the menu is shown again (no uncaught exception).
C11_RunFailuresCaught ==
  [][(pc \in RunPrompts) =>
       /\ pc' = "done"
       /\ \A e \in RunnableEntries : \A env \in RunEnvs(e) :
            LET ev == run_app(variant, e, files, env)
                branch == RunBranch(e)
                readable == e.path \in DOMAIN files /\ env.readOk
            IN  /\ (branch = "python" /\ ~readable) => Has(ev, "report_error_running")
                /\ (branch = "python" /\ readable /\ env.proc \in {"nonzero", "nostart"})
                     => Has(ev, "report_error_running")
                /\ (branch = "python" /\ readable /\ env.proc = "interrupt")
                     => Has(ev, "report_app_stopped") /\ ~Has(ev, "report_error_running")
                /\ (Has(ev, "exec_binary") /\ ~env.win32 /\ env.proc = "interrupt")
                     => Has(ev, "report_app_stopped") /\ ~Has(ev, "report_error_running")
                /\ (Has(ev, "exec_binary") /\ ~env.win32 /\ env.proc = "nostart")
                     => Has(ev, "report_error_running")
                /\ (Has(ev, "report_using_online") /\ ~readable)
                     => Has(ev, "report_read_error")
                /\ (Has(ev, "startfile") /\ env.proc = "nostart")
                     => Has(ev, "report_error_running")]_vars

\* A python app was interrupted while it ran: the stop is reported, the pass is over.
C11_Witness ==
  /\ pc = "done"
  /\ Has(out, "exec_python")
  /\ Has(out, "report_app_stopped")

\* A step of the refinement flow: the menu choice, or an answer inside the flow.
RefineStep ==
  \/ pc \in {"select_app", "ask_refinement", "ask_overwrite", "ask_run_updated"}
  \/ pc = "menu" /\ (Has(out', "ask_select_app") \/ Has(out', "report_no_apps_to_refine"))

\* C12: a refinement leaves the registry unchanged in every outcome; it writes a file
\* only in the step that answers the overwrite prompt, when the assistant returned at
\* least one block: the file at the path of the selected record gets the code of the
\* first block, and every other file is unchanged.
C12_RefineFrame ==
  [][RefineStep =>
       /\ regFile' = regFile
       /\ dirs' = dirs
       /\ ~Has(out', "write") => files' = files
       /\ Has(out', "write") =>
            /\ pc = "ask_overwrite"
            /\ Len(loc.new_code_blocks) >= 1
            /\ DOMAIN files' = DOMAIN files \cup {loc.selected_app.path}
            /\ files'[loc.selected_app.path] = loc.new_code_blocks[1].code
            /\ \A q \in DOMAIN files :
                 q # loc.selected_app.path => files'[q] = files[q]]_vars

\* The file of the selected app was overwritten with the first of two blocks, which
\* differs from what it held.
C12_Witness ==
  /\ pc = "ask_run_updated"
  /\ Len(loc.new_code_blocks) = 2
  /\ files[loc.selected_app.path] = loc.new_code_blocks[1].code
  /\ loc.existing_code # loc.new_code_blocks[1].code

\* The step that answers the refinement prompt got a non-empty response of the
\* assistant in which no code block was found.
RefinedWithoutBlock ==
  /\ pc = "ask_refinement"
  /\ Has(out', "gh_exit_zero")
  /\ pc' # "ask_overwrite"

C14_WriteFailureCaught ==
  [][(pc \in {"ask_save", "ask_filename", "ask_save_raw"}
        /\ (Has(out', "write_failed") \/ Has(out', "mkdir_failed"))) =>
       /\ pc' = "done"
       /\ Has(out', "report_save_error")
       /\ ~Has(out', "uncaught_exception")]_vars

\* C15: every record stored in the registry has the language Python, HTML or C++;
\* the choice "Auto" is resolved to one of the three before the record is added.
C15_LanguageResolved ==
  \A k \in 1..Len(Registry) : Registry[k].language \in {"Python", "HTML", "C++"}

\* The files an app of this save is made of.
FilesOfSave ==
  IF variant = "v2" /\ loc.code_blocks # <<>>
                    /\ UseDirectory(loc.is_complex, loc.code_blocks)
  THEN Len(loc.code_blocks) ELSE 1

\* C16: a record is added exactly once per successful save and only after every
\* file of the app is written: the registry changes only in the step that ends a
\* save, by one record, with all the files of the app on disk, and not again in
\* that pass; a failed write adds no record and leaves the files written before it.
C16_RecordAfterAllFiles ==
  [][/\ (regFile' # regFile \/ Has(out', "add_registry")) =>
          /\ pc \in {"ask_save", "ask_filename", "ask_save_raw"}
          /\ pc' = "ask_run"
          /\ Has(out', "add_registry")
          /\ Registry' = Append(Registry, Registry'[Len(Registry')])
          /\ Len(loc'.written) = FilesOfSave
          /\ \A k \in 1..Len(loc'.written) : abspath(loc'.written[k]) \in DOMAIN files'
     /\ (Has(out', "write_failed") \/ Has(out', "mkdir_failed")) =>
          /\ regFile' = regFile
          /\ files' = files
          /\ pc' \in {"done", "crashed"}
     /\ (pc \in {"ask_run", "done", "crashed"}) => regFile' = regFile]_vars

\* The write of the second block failed: the first file is on disk, the directory
\* exists, and the registry has no record.
C16_Witness ==
  /\ pc = "crashed"
  /\ Has(out, "write_failed")
  /\ Len(Registry) = 0
  /\ DOMAIN files # {}
  /\ dirs # {}

\* The first position of event e in events (0 when absent), and "a happens, and b
\* after it".
Pos(events, e) ==
  IF Has(events, e)
  THEN CHOOSE k \in 1..Len(events) :
         events[k] = e /\ \A j \in 1..(k - 1) : events[j] # e
  ELSE 0

Before(events, a, b) == Has(events, a) /\ Has(events, b) /\ Pos(events, a) < Pos(events, b)

\* run_app took the C++ branch and found no g++.
NoCompilerRun(events) ==
  /\ Has(events, "report_running")
  /\ Has(events, "report_using_online") \/ Has(events, "report_no_compiler")
  /\ ~Has(events, "compile")

\* The automation, then the page on its failure, in this order.
AutomationChain(events) ==
  /\ Has(events, "selenium_start")
  /\ IF Has(events, "report_submitted")
     THEN /\ Before(events, "selenium_start", "open_compiler_page")
          /\ Before(events, "open_compiler_page", "inject_source")
          /\ Before(events, "inject_source", "click_run")
          /\ Before(events, "click_run", "report_submitted")
          /\ ~Has(events, "open_web_page")
     ELSE /\ Before(events, "selenium_start", "report_automation_error")
          /\ Pos(events, "open_web_page") = Pos(events, "report_automation_error") + 1
          /\ ~Has(events, "click_run")

C18_UnreadableEndsRefinement ==
  [][/\ (pc = "select_app" /\ Has(out', "report_read_error")) =>
          /\ pc' = "done"
          /\ out' = <<"report_read_error">>
          /\ UNCHANGED <<files, dirs, regFile>>
     /\ (pc' = "ask_refinement") =>
          /\ pc = "select_app"
          /\ Has(out', "read_file")
          /\ loc'.selected_app.path \in DOMAIN files
          /\ loc'.existing_code = files[loc'.selected_app.path]
     /\ (pc = "done") => (pc' = "menu" /\ UNCHANGED <<files, dirs, regFile>>)]_vars

\* A refinement ended on the read failure of a registered app.
C18_Witness ==
  /\ pc = "done"
  /\ out = <<"report_read_error">>
  /\ Len(Registry) > 0
  /\ Registry[1].path \in DOMAIN files

\* C19: on every markdown text extract_code agrees with extract_code_blocks: it
\* returns None exactly when the list of blocks is empty, and otherwise the code of
\* the first pair of the list.
C19_FirstBlockAgrees ==
  xpc = "both" =>
    /\ codeOut = None <=> blocksOut = <<>>
    /\ blocksOut # <<>> => codeOut = blocksOut[1].code

\* The step of a create pass in which the user declined the save, or entered an
\* empty request: the prompt was answered and nothing was asked after it.
Declined(events) ==
  \/ events = <<"ask_query">>
  \/ /\ Len(events) > 0
     /\ events[1] \in {"ask_save", "ask_save_raw"}
     /\ ~Has(events, "ask_name")
     /\ ~Has(events, "ask_filename")

\* C20: in the create flow nothing is persisted without the confirmation of the
\* user: declining the save prompt or the raw save, or an empty request, ends the
\* pass with no file written, no directory created and the registry unchanged; the
\* questions before the save prompt persist nothing either.
C20_NothingWithoutConfirmation ==
  [][/\ (pc \in {"menu", "ask_save", "ask_save_raw"} /\ Declined(out')) =>
          /\ pc' = "done"
          /\ UNCHANGED <<files, dirs, regFile>>
     /\ (pc = "menu") => UNCHANGED <<files, dirs, regFile>>
     /\ (pc \in {"ask_save", "ask_save_raw"} /\ ~UNCHANGED <<files, dirs, regFile>>) =>
          Has(out', "ask_name") \/ Has(out', "ask_filename")]_vars

\* The raw save was declined after an earlier app was saved: its file and its
\* record are all there is.
C20_Witness ==
  /\ pc = "done"
  /\ out = <<"ask_save_raw", "print_separator">>
  /\ Len(Registry) = 1
  /\ DOMAIN files = {Registry[1].path}

\* The same entry under another name.
Renamed(entry) == [entry EXCEPT !.name = <<"other">>]

\* C21: at "Run this app now" the temporary entry and the record just stored for
\* the app have the same path and the same language; entering the id of the record
\* in "View/Run Existing Apps" selects that record; and run_app does the same with
\* both on the same files in the same environment (the same branch, the same
\* events), whatever the other fields of the entry.
C21_TempEntryRunsAsRecord ==
  pc = "ask_run" =>
    /\ Len(Registry) > 0
    /\ "language" \in DOMAIN TempEntry
    /\ TempEntry.path = LastRecord.path
    /\ TempEntry.language = LastRecord.language
    /\ FindById(Registry, LastRecord.id) = Len(Registry)
    /\ RunBranch(TempEntry) = RunBranch(LastRecord)
    /\ \A env \in RunEnvs(TempEntry) \cup RunEnvs(LastRecord) :
         /\ run_app(variant, TempEntry, files, env)
              = run_app(variant, LastRecord, files, env)
         /\ run_app(variant, Renamed(TempEntry), files, env)
              = run_app(variant, TempEntry, files, env)

\* The second app, a C++ one, was saved and can be run now.
C21_Witness ==
  /\ pc = "ask_run"
  /\ Len(Registry) = 2
  /\ TempEntry.language = "C++"
  /\ LastRecord.path \in DOMAIN files

====
